---- MODULE Spec2Model ----
(***************************************************************************)
(* Model of backend/src/services/rag_service.py: the line-delimited        *)
(* command dispatcher (main) and the RAGChatService it owns (constructor,  *)
(* build-or-load of the vector index, chat, greeting).                     *)
(*                                                                         *)
(* Python values are modelled as follows.  In a slot that holds a plain    *)
(* identifier, None is the reserved string None and a key missing from a   *)
(* dict is the reserved string Missing.  A value that chat coerces with    *)
(* str() is a record [kind, text], kind one of "str", "none", "missing".   *)
(* A formatted string f"prefix{x}" is the tuple <<prefix, x>>.  A nullable *)
(* field of a result is <<>> when null and <<value>> otherwise.  A call    *)
(* that may raise returns a record [raised, error, value].  The external   *)
(* collaborators (embedding model, vector store, text splitter, language   *)
(* model) are inputs: whether a call to them raises, and which ranking a   *)
(* similarity query returns, are chosen by the environment.                *)
(***************************************************************************)
EXTENDS Integers, Sequences, FiniteSets

VARIABLES
    rag_service,  \* main: the service instance (NoService while None)
    storage,      \* the file system: state of every index storage directory
    stdin_read,   \* the input lines main has consumed so far, oldest first:
                  \* of each, whether it is blank once stripped
    stdout,       \* the response lines printed (and flushed) so far
    pc,           \* main: "read" while in the for loop, "eof" after it
    last,         \* the locals of the most recent loop iteration
    sent_history, \* chat called on its own: the chat_history argument
    lc_result,    \* chat called on its own: what the history loop made of it
    retrieved,    \* chat called on its own: the docs a retrieval query returned
    shown         \* chat called on its own: the sources and the context
                  \* formatted from them

\* the variables of main, and those of the operations of chat taken alone
mainvars == <<rag_service, storage, stdin_read, stdout, pc, last>>
callvars == <<sent_history, lc_result, retrieved, shown>>
vars == <<rag_service, storage, stdin_read, stdout, pc, last,
          sent_history, lc_result, retrieved, shown>>

---------------------------------------------------------------------------
(* Bounds of the model *)

\* number of input lines the environment sends before end-of-input
MaxLines == 3

\* number of elements of the longest chat_history a caller sends
MaxHistory == 11

\* number of documents of the longest list a retrieval query returns to the
\* sources loop and to format_docs taken alone
MaxDocs == 5

---------------------------------------------------------------------------
(* Python values *)

None == "None"
Missing == "<missing>"

Ok(v) == [raised |-> FALSE, error |-> <<>>, value |-> v]
Raise(e) == [raised |-> TRUE, error |-> e, value |-> <<>>]

\* dict.get(key, default) on a field that holds Missing when the key is absent
Get(field, default) == IF field = Missing THEN default ELSE field

\* values that chat coerces with str(): a string, None, or an absent key
PyStr(t) == [kind |-> "str", text |-> t]
PyNone == [kind |-> "none", text |-> <<>>]
PyMissing == [kind |-> "missing", text |-> <<>>]

\* dict.get(key, default) on such a value
GetValue(v, default) == IF v.kind = "missing" THEN default ELSE v

\* x if isinstance(x, str) else str(x)
Str(v) == IF v.kind = "str" THEN v ELSE PyStr(<<"None">>)

---------------------------------------------------------------------------
(* The environment: files on disk and the values commands may carry *)

\* index storage directories a command may name
Dirs == {"chroma_a", "chroma_b"}

\* corpus files a command may name
CorpusPaths == {"A.json", "B.json", "missing.json", "malformed.json"}

\* provider identifiers a command may carry (Missing: the key is absent)
Providers == {"bogus", Missing}

\* command identifiers main does not recognize (None: no "command" key)
UnknownCommands == {"shutdown", None}

\* A text is named by its content and its length in characters; a prefix of
\* it is the same content with a smaller length.
Text(name, len) == [text |-> name, len |-> len]

\* The corpus files.  A record is {id, title, content}; content is given as
\* the pieces the text splitter cuts title + "\n\n" + content into.  The
\* records of malformed.json lack the "title" key; missing.json cannot be
\* opened.
CorpusFile(path) ==
    CASE path = "A.json" ->
            Ok(<< [id |-> 1, title |-> "Doctor",
                   content |-> << Text("d0", 512), Text("d1", 512),
                                  Text("d2", 300) >>],
                  [id |-> 2, title |-> "Nurse",
                   content |-> << Text("n0", 512), Text("n1", 120) >>] >>)
      [] path = "B.json" ->
            Ok(<< [id |-> 3, title |-> "Pilot", content |-> << Text("p0", 200) >>] >>)
      [] path = "malformed.json" ->
            Ok(<< [id |-> 4, title |-> Missing, content |-> << Text("x0", 80) >>] >>)
      [] OTHER -> Raise(<<"[Errno 2] No such file or directory: ", path>>)

\* A directory is absent, exists and is empty, or holds a persisted index.
AbsentDir == [state |-> "absent", docs |-> <<>>]
EmptyDir == [state |-> "empty", docs |-> <<>>]
IndexDir(docs) == [state |-> "nonempty", docs |-> docs]

---------------------------------------------------------------------------
(* RAGChatService: construction *)

\* as_retriever(search_kwargs={"k": 3})
RetrieverK == 3

\* rag_service = None
NoService ==
    [careers_json_path |-> None, chroma_persist_dir |-> None,
     provider |-> None, vectordb |-> None, k |-> 0]

\* _load_json: open the file and parse it
_load_json(path) == IF path \in CorpusPaths THEN CorpusFile(path)
                  ELSE Raise(<<"expected str, bytes or os.PathLike object, not ", "NoneType">>)

\* splitter.split_text(combined): the pieces of one record, each carrying the
\* record's text
SplitText(item) == item.content

\* an inner loop that numbers the chunks from 1
ItemDocs_FromOne(item) ==
    LET chunks == SplitText(item)
    IN  [n \in 1..Len(chunks) |->
            [page_content |-> chunks[n], source_id |-> item.id,
             title |-> item.title, chunk_index |-> n]]

\* the inner loop of _json_to_docs: for i, ch in enumerate(chunks)
ItemDocs(item) ==
    LET chunks == SplitText(item)
    IN  [n \in 1..Len(chunks) |->
            [page_content |-> chunks[n], source_id |-> item.id,
             title |-> item.title, chunk_index |-> n - 1]]

\* _json_to_docs: item['title'] raises KeyError on a record without title
RECURSIVE _json_to_docs(_)
_json_to_docs(items) ==
    IF items = <<>> THEN Ok(<<>>)
    ELSE IF Head(items).title = Missing THEN Raise(<<"'title'">>)
    ELSE LET rest == _json_to_docs(Tail(items))
         IN  IF rest.raised THEN rest
             ELSE Ok(ItemDocs(Head(items)) \o rest.value)

\* a test that omits os.listdir: any existing directory is taken for an index
ShouldLoad_ExistsOnly(dirstate) == dirstate.state # "absent"

\* os.path.exists(dir) and os.listdir(dir): load exactly when the directory
\* exists and is non-empty
ShouldLoad(dirstate) == dirstate.state = "nonempty"

\* an _init_vectordb that never loads: it ingests the corpus and builds anew
_init_vectordb_Rebuild(careers_json_path, chroma_persist_dir, store) ==
    IF chroma_persist_dir \notin Dirs
    THEN [res |-> Raise(<<"stat: path should be string, bytes, os.PathLike or integer, not ", "NoneType">>),
          store |-> store, corpus_read |-> FALSE]
    ELSE LET items == _load_json(careers_json_path)
             docs == IF items.raised THEN items ELSE _json_to_docs(items.value)
         IN  IF docs.raised
             THEN [res |-> docs, store |-> store, corpus_read |-> TRUE]
             ELSE [res |-> Ok(chroma_persist_dir),
                   store |-> [store EXCEPT ![chroma_persist_dir] = IndexDir(docs.value)],
                   corpus_read |-> TRUE]

\* _init_vectordb: returns the index handle and the storage it leaves behind.
\* os.path.exists(None) raises TypeError.
_init_vectordb(careers_json_path, chroma_persist_dir, store) ==
    IF chroma_persist_dir \notin Dirs
    THEN [res |-> Raise(<<"stat: path should be string, bytes, os.PathLike or integer, not ", "NoneType">>),
          store |-> store, corpus_read |-> FALSE]
    ELSE IF ShouldLoad(store[chroma_persist_dir])
    THEN [res |-> Ok(chroma_persist_dir), store |-> store, corpus_read |-> FALSE]
    ELSE LET items == _load_json(careers_json_path)
             docs == IF items.raised THEN items ELSE _json_to_docs(items.value)
         IN  IF docs.raised
             THEN [res |-> docs, store |-> store, corpus_read |-> TRUE]
             ELSE [res |-> Ok(chroma_persist_dir),
                   store |-> [store EXCEPT ![chroma_persist_dir] = IndexDir(docs.value)],
                   corpus_read |-> TRUE]

\* an _init_llm whose last branch is the google client instead of the raise
_init_llm_Default(provider, client_ok) ==
    IF client_ok THEN Ok(provider) ELSE Raise(<<"llm client: ", provider>>)

\* _init_llm: the provider client, or ValueError for an unknown provider;
\* client_ok is whether the provider's client can be constructed
_init_llm(provider, client_ok) ==
    IF provider = "groq" \/ provider = "google"
    THEN IF client_ok THEN Ok(provider) ELSE Raise(<<"llm client: ", provider>>)
    ELSE Raise(<<"Unknown provider: ", provider>>)

\* a constructor that validates the provider before it touches the index
RAGChatService_LlmFirst(careers_json_path, chroma_persist_dir, provider, store, ext) ==
    LET db == _init_vectordb(careers_json_path, chroma_persist_dir, store)
        loaded == ~db.res.raised /\ ~db.corpus_read
        llm == _init_llm(provider, ext.client_ok)
    IN  IF llm.raised
        THEN [res |-> llm, store |-> store,
              corpus_read |-> FALSE, loaded |-> FALSE]
        ELSE IF db.res.raised
        THEN [res |-> db.res, store |-> db.store,
              corpus_read |-> db.corpus_read, loaded |-> FALSE]
        ELSE [res |-> Ok([careers_json_path |-> careers_json_path,
                          chroma_persist_dir |-> chroma_persist_dir,
                          provider |-> provider,
                          vectordb |-> db.res.value,
                          k |-> RetrieverK]),
              store |-> db.store,
              corpus_read |-> db.corpus_read, loaded |-> loaded]

\* RAGChatService.__init__: the index, then the llm, then the retriever and
\* the chain.  ext = [client_ok].  Besides the instance, the result tells
\* what the constructor did to the storage and whether it read the corpus
\* or loaded an index.
RAGChatService(careers_json_path, chroma_persist_dir, provider, store, ext) ==
    LET db == _init_vectordb(careers_json_path, chroma_persist_dir, store)
        loaded == ~db.res.raised /\ ~db.corpus_read
        llm == _init_llm(provider, ext.client_ok)
    IN  IF db.res.raised
        THEN [res |-> db.res, store |-> db.store,
              corpus_read |-> db.corpus_read, loaded |-> FALSE]
        ELSE IF llm.raised
        THEN [res |-> llm, store |-> db.store,
              corpus_read |-> db.corpus_read, loaded |-> loaded]
        ELSE [res |-> Ok([careers_json_path |-> careers_json_path,
                          chroma_persist_dir |-> chroma_persist_dir,
                          provider |-> provider,
                          vectordb |-> db.res.value,
                          k |-> RetrieverK]),
              store |-> db.store,
              corpus_read |-> db.corpus_read, loaded |-> loaded]

---------------------------------------------------------------------------
(* RAGChatService: retrieval and the chain *)

\* the first n elements of s: s[:n]
Take(s, n) == IF Len(s) <= n THEN s ELSE SubSeq(s, 1, n)

\* a slice that keeps the whole list
LastN_All(s, n) == s

\* the last n elements of s: s[-n:]
LastN(s, n) == IF Len(s) <= n THEN s ELSE SubSeq(s, Len(s) - n + 1, Len(s))

\* The similarity ranking of a query is the vector store's: the environment
\* picks it as a rotation of the collection.
Ranked(docs, rank) ==
    [n \in 1..Len(docs) |-> docs[((n - 1 + rank) % Len(docs)) + 1]]

\* self.retriever.invoke(query): the k best matches, best first, of the
\* collection persisted in the directory the handle names
RetrieverInvoke(svc, store, ok, rank) ==
    IF ok THEN Ok(Take(Ranked(store[svc.vectordb].docs, rank), svc.k))
    ELSE Raise(<<"retriever: ", "query failed">>)

\* f"[Source {i}: {doc.metadata.get('title', 'Unknown')}]\n{doc.page_content}"
SourceBlock(i, doc) ==
    << "[Source ", i, ": ", Get(doc.title, "Unknown"), "]\n", doc.page_content >>

\* "\n\n---\n\n".join(formatted), formatted numbered from i
RECURSIVE JoinBlocks(_, _)
JoinBlocks(docs, i) ==
    IF Len(docs) = 1 THEN SourceBlock(i, docs[1])
    ELSE SourceBlock(i, docs[1]) \o << "\n\n---\n\n" >>
            \o JoinBlocks(Tail(docs), i + 1)

\* a format_docs whose enumerate starts at 0
format_docs_FromZero(docs) ==
    IF docs = <<>> THEN << "No relevant information found." >>
    ELSE JoinBlocks(docs, 0)

\* format_docs: the marker, or the numbered titled blocks of the documents
\* joined by the separator
format_docs(docs) ==
    IF docs = <<>> THEN << "No relevant information found." >>
    ELSE JoinBlocks(docs, 1)

\* get_context: a retrieval query of its own, then format_docs
get_context(svc, store, question, ok, rank) ==
    LET docs == RetrieverInvoke(svc, store, ok, rank)
    IN  IF docs.raised THEN docs ELSE Ok(format_docs(docs.value))

\* self.chain.invoke: context | prompt | llm | StrOutputParser.
\* ext = [retr_ok, ctx_ok, llm_ok, rank].  steps lists what ran.
ChainInvoke(svc, store, inputs, ext) ==
    LET context == get_context(svc, store, inputs.question, ext.ctx_ok, ext.rank)
        prompt == [language |-> inputs.language, context |-> context.value,
                   chat_history |-> inputs.chat_history,
                   question |-> inputs.question]
    IN  IF context.raised
        THEN [res |-> context, steps |-> <<"context_retrieve">>, prompt |-> <<>>]
        ELSE IF ~ext.llm_ok
        THEN [res |-> Raise(<<"llm: ", "request failed">>),
              steps |-> <<"context_retrieve", "prompt", "llm">>,
              prompt |-> <<prompt>>]
        ELSE [res |-> Ok(PyStr(<<"answer">>)),
              steps |-> <<"context_retrieve", "prompt", "llm">>,
              prompt |-> <<prompt>>]

---------------------------------------------------------------------------
(* RAGChatService.chat *)

\* chat_history[-10:]
HistoryWindow == 10
\* docs[:4]
SourcesMax == 4
\* doc.page_content[:250]
SnippetLen == 250

\* x[:n] of a text
Prefix(t, n) == [text |-> t.text, len |-> IF t.len <= n THEN t.len ELSE n]

\* a history loop with an else branch that keeps every other role as well
RECURSIVE ConvertHistory_KeepsAll(_, _)
ConvertHistory_KeepsAll(msgs, lc_history) ==
    IF msgs = <<>> THEN Ok(lc_history)
    ELSE LET msg == Head(msgs)
             content == Str(GetValue(msg.content, PyStr(<<>>)))
         IN  IF ~msg.dict
             THEN Raise(<<"'str' object has no attribute 'get'">>)
             ELSE IF msg.role = Missing THEN Raise(<<"'role'">>)
             ELSE ConvertHistory_KeepsAll(Tail(msgs),
                     Append(lc_history,
                            [type |-> IF msg.role = "user" THEN "human"
                                      ELSE IF msg.role = "assistant" THEN "ai"
                                      ELSE msg.role,
                             content |-> content]))

\* the body of the history loop, over the window oldest first: msg.get on a
\* non-dict raises AttributeError, msg["role"] on a dict without role raises
\* KeyError, a role other than user and assistant appends nothing
RECURSIVE ConvertHistory(_, _)
ConvertHistory(msgs, lc_history) ==
    IF msgs = <<>> THEN Ok(lc_history)
    ELSE LET msg == Head(msgs)
             content == Str(GetValue(msg.content, PyStr(<<>>)))
         IN  IF ~msg.dict
             THEN Raise(<<"'str' object has no attribute 'get'">>)
             ELSE IF msg.role = Missing THEN Raise(<<"'role'">>)
             ELSE IF msg.role = "user"
             THEN ConvertHistory(Tail(msgs),
                     Append(lc_history, [type |-> "human", content |-> content]))
             ELSE IF msg.role = "assistant"
             THEN ConvertHistory(Tail(msgs),
                     Append(lc_history, [type |-> "ai", content |-> content]))
             ELSE ConvertHistory(Tail(msgs), lc_history)

\* a loop over the whole history that keeps the last 10 messages it made
NormalizeHistory_FilterFirst(chat_history) ==
    LET lc == ConvertHistory(chat_history, <<>>)
    IN  IF lc.raised THEN lc ELSE Ok(LastN(lc.value, HistoryWindow))

\* lc_history as the loop leaves it: the window chat_history[-10:], converted
NormalizeHistory(chat_history) ==
    ConvertHistory(LastN(chat_history, HistoryWindow), <<>>)

\* a sources loop over all of docs that copies page_content whole
FormatSources_Uncapped(docs) ==
    [n \in 1..Len(docs) |->
        [title |-> Get(docs[n].title, "Unknown"),
         chunk_index |-> docs[n].chunk_index,
         snippet |-> docs[n].page_content]]

\* the sources loop: for doc in docs[:4]
FormatSources(docs) ==
    LET top == Take(docs, SourcesMax)
    IN  [n \in 1..Len(top) |->
            [title |-> Get(top[n].title, "Unknown"),
             chunk_index |-> top[n].chunk_index,
             snippet |-> Prefix(top[n].page_content, SnippetLen)]]

\* the dict chat returns; a null field is <<>>, a non-null one <<value>>
ChatResult(response, sources, error) ==
    [response |-> response, sources |-> sources, error |-> error]

\* an except branch that answers an empty string instead of None
ChatFailure_EmptyResponse(e) == ChatResult(<<PyStr(<<>>)>>, <<>>, <<e>>)

\* an except branch that reports a source along with the error
ChatFailure_WithSource(e) ==
    ChatResult(<<>>,
               <<[title |-> "Unknown", chunk_index |-> 0,
                  snippet |-> Text("", 0)]>>,
               <<e>>)

\* the except branch of chat
ChatFailure(e) == ChatResult(<<>>, <<>>, <<e>>)

\* a chat that queries the retriever before it converts the history
chat_RetrievesFirst(svc, store, message, chat_history, language, ext) ==
    LET question == Str(message)
        lc == NormalizeHistory(chat_history)
        docs == RetrieverInvoke(svc, store, ext.retr_ok, ext.rank)
        gen == ChainInvoke(svc, store,
                    [question |-> question, chat_history |-> lc.value,
                     language |-> language], ext)
    IN  IF docs.raised
        THEN [result |-> ChatFailure(docs.error), steps |-> <<"retrieve">>,
              docs |-> <<>>, prompt |-> <<>>]
        ELSE IF lc.raised
        THEN [result |-> ChatFailure(lc.error),
              steps |-> <<"retrieve", "history">>,
              docs |-> docs.value, prompt |-> <<>>]
        ELSE IF gen.res.raised
        THEN [result |-> ChatFailure(gen.res.error),
              steps |-> <<"retrieve", "history">> \o gen.steps,
              docs |-> docs.value, prompt |-> gen.prompt]
        ELSE [result |-> ChatResult(<<Str(gen.res.value)>>,
                                    FormatSources(docs.value), <<>>),
              steps |-> <<"retrieve", "history">> \o gen.steps \o <<"sources">>,
              docs |-> docs.value, prompt |-> gen.prompt]

\* chat: the try block, and the except branch on any exception inside it.
\* Returns the result dict and, for inspection, what ran.
chat(svc, store, message, chat_history, language, ext) ==
    LET question == Str(message)
        lc == NormalizeHistory(chat_history)
        docs == RetrieverInvoke(svc, store, ext.retr_ok, ext.rank)
        gen == ChainInvoke(svc, store,
                    [question |-> question, chat_history |-> lc.value,
                     language |-> language], ext)
    IN  IF lc.raised
        THEN [result |-> ChatFailure(lc.error), steps |-> <<"history">>,
              docs |-> <<>>, prompt |-> <<>>]
        ELSE IF docs.raised
        THEN [result |-> ChatFailure(docs.error),
              steps |-> <<"history", "retrieve">>,
              docs |-> <<>>, prompt |-> <<>>]
        ELSE IF gen.res.raised
        THEN [result |-> ChatFailure(gen.res.error),
              steps |-> <<"history", "retrieve">> \o gen.steps,
              docs |-> docs.value, prompt |-> gen.prompt]
        ELSE [result |-> ChatResult(<<Str(gen.res.value)>>,
                                    FormatSources(docs.value), <<>>),
              steps |-> <<"history", "retrieve">> \o gen.steps \o <<"sources">>,
              docs |-> docs.value, prompt |-> gen.prompt]

---------------------------------------------------------------------------
(* RAGChatService.generate_initial_greeting *)

\* a greeting that generates in English whatever the language code
LangInstruction_English(language) == "Generate in English"

\* lang_instructions.get(language, "Generate in English")
LangInstruction(language) ==
    CASE language = "en" -> "Generate in English"
      [] language = "hi" -> "Generate in Hindi"
      [] language = "te" -> "Generate in Telugu"
      [] language = "ta" -> "Generate in Tamil"
      [] language = "mr" -> "Generate in Marathi"
      [] language = "bn" -> "Generate in Bengali"
      [] OTHER -> "Generate in English"

\* the f-string greeting_prompt
GreetingPrompt(assessment_summary, language) ==
    PyStr(<<"Based on this student's assessment results, ...",
            LangInstruction(language),
            "Assessment Summary:", assessment_summary,
            "Keep the greeting concise (2-3 sentences) and friendly.">>)

\* a "language" field that is a JSON array: a list is unhashable, so
\* lang_instructions.get(language, ...) raises TypeError
ListValue == "<list>"

\* the response of the except branch of generate_initial_greeting
FallbackGreeting ==
    PyStr(<<"Hello! I'm your career guidance assistant. I'm here to help you explore your career options based on your assessment results. What would you like to know?">>)

\* a greeting that hands chat the code "en" for a code outside the table
generate_initial_greeting_Normalized(svc, store, assessment_summary, language, ext) ==
    IF language = ListValue
    THEN [result |-> ChatResult(<<FallbackGreeting>>, <<>>,
                                << <<"unhashable type: 'list'">> >>),
          steps |-> <<>>, docs |-> <<>>, prompt |-> <<>>]
    ELSE chat(svc, store, GreetingPrompt(assessment_summary, language), <<>>,
              IF language \in {"en", "hi", "te", "ta", "mr", "bn"}
              THEN language ELSE "en", ext)

\* generate_initial_greeting: the table lookup, then chat on the synthesized
\* prompt with an empty history; the except branch answers the fallback
\* greeting.  chat catches every exception raised inside it and returns its
\* own failure dict, so only the lookup can reach the except branch.
generate_initial_greeting(svc, store, assessment_summary, language, ext) ==
    IF language = ListValue
    THEN [result |-> ChatResult(<<FallbackGreeting>>, <<>>,
                                << <<"unhashable type: 'list'">> >>),
          steps |-> <<>>, docs |-> <<>>, prompt |-> <<>>]
    ELSE chat(svc, store, GreetingPrompt(assessment_summary, language), <<>>,
              language, ext)

---------------------------------------------------------------------------
(* main: the values the environment sends *)

\* chat_history elements: dict says whether the element is a JSON object
UserTurn == [dict |-> TRUE, role |-> "user", content |-> PyStr(<<"hello">>)]
AssistantTurn == [dict |-> TRUE, role |-> "assistant", content |-> PyMissing]
SystemTurn == [dict |-> TRUE, role |-> "system", content |-> PyStr(<<"hello">>)]
NoRoleTurn == [dict |-> TRUE, role |-> Missing, content |-> PyStr(<<"hello">>)]
NonDictTurn == [dict |-> FALSE, role |-> Missing, content |-> PyMissing]

\* the "chat_history" field: absent or empty, a conversation with a turn of
\* an unrecognized role in it, one with an element that has no role, and
\* one with an element that is no object
Histories ==
    { <<>>, <<UserTurn, SystemTurn, AssistantTurn>>, <<UserTurn, NoRoleTurn>>,
      <<NonDictTurn>> }

\* the "message" field of a chat command
Messages == { PyStr(<<"What does a doctor do?">>) }

\* the "language" field of a chat command: a code of the greeting table and
\* a code outside it
Languages == {"hi", "xx"}

\* the "language" field of a greeting command
GreetingLanguages == Languages \cup {ListValue}

\* the "assessment_summary" field
Summaries == {"Realistic, Investigative"}

\* rotations the vector store may rank by
Ranks == {0, 2}

\* outcomes of the external calls of one initialize: whether the provider's
\* client can be constructed (an API key is configured)
InitExt == [client_ok : BOOLEAN]

\* outcomes of the external calls of one chat turn: the ranking of the
\* query, and at most one call that raises
ChatExt ==
    { e \in [retr_ok : BOOLEAN, ctx_ok : BOOLEAN, llm_ok : BOOLEAN, rank : Ranks] :
        /\ ~e.retr_ok => e.ctx_ok /\ e.llm_ok /\ e.rank = 0
        /\ ~e.ctx_ok => e.llm_ok /\ e.rank = 0 }

\* an index persisted by an earlier process
PrebuiltDocs == _json_to_docs(CorpusFile("A.json").value).value

---------------------------------------------------------------------------
(* main: one iteration of the for loop per input line *)

\* what a chat call leaves when it was not made
NoCall ==
    [result |-> ChatResult(<<>>, <<>>, <<>>), steps |-> <<>>, docs |-> <<>>,
     prompt |-> <<>>]

\* the three response shapes main prints; data is the dict chat returned
ErrorResponse(message) ==
    [status |-> "error", message |-> message, has_data |-> FALSE]
InitializedResponse ==
    [status |-> "success", message |-> <<"RAG service initialized">>,
     has_data |-> FALSE]
DataResponse == [status |-> "success", message |-> <<>>, has_data |-> TRUE]
NoResponse == [status |-> "", message |-> <<>>, has_data |-> FALSE]

\* the locals of an iteration: the command and the arguments read from
\* input_data, whether the try block raised into main's except branch, what
\* the constructor did, what the chat operation did and returned, and the
\* response the iteration printed
Locals(command, args, raised, corpus_read, loaded, call, response) ==
    [command |-> command, args |-> args, raised |-> raised,
     corpus_read |-> corpus_read, loaded |-> loaded,
     call |-> call, response |-> response]

NoLocals == Locals("", <<>>, FALSE, FALSE, FALSE, NoCall, NoResponse)

\* raise Exception("Service not initialized. Call 'initialize' first.")
NotInitialized == <<"Service not initialized. Call 'initialize' first.">>

\* a print that puts the new line in front of the lines written before
PrintLine_Prepend(out, line, response) ==
    <<[line |-> line, status |-> response.status]>> \o out

\* print(safe_json_dumps(response), flush=True): one line on stdout.  The
\* stream keeps, of every line, its status and the number of the input line
\* it answers; the whole of the newest line is in the locals.
PrintLine(out, line, response) ==
    Append(out, [line |-> line, status |-> response.status])

\* a dispatcher that clears the instance before constructing the new one
AssignService_Reset(svc, made) ==
    IF made.res.raised THEN NoService ELSE made.res.value

\* rag_service = RAGChatService(...): assigned only when the constructor
\* returns
AssignService(svc, made) == IF made.res.raised THEN svc ELSE made.res.value

\* if rag_service is None
IsNone(svc) == svc = NoService

\* a chat branch without the guard: None has no attribute chat
ChatBranch_NoGuard(svc, store, message, chat_history, language, ext) ==
    IF IsNone(svc)
    THEN [raised |-> TRUE, error |-> <<"'NoneType' object has no attribute 'chat'">>,
          call |-> NoCall]
    ELSE [raised |-> FALSE, error |-> <<>>,
          call |-> chat(svc, store, message, chat_history, language, ext)]

\* a chat branch that raises when the result reports an error
ChatBranch_Propagates(svc, store, message, chat_history, language, ext) ==
    LET call == chat(svc, store, message, chat_history, language, ext)
    IN  IF IsNone(svc)
        THEN [raised |-> TRUE, error |-> NotInitialized, call |-> NoCall]
        ELSE IF call.result.error # <<>>
        THEN [raised |-> TRUE, error |-> call.result.error[1], call |-> call]
        ELSE [raised |-> FALSE, error |-> <<>>, call |-> call]

\* the chat branch: the guard, then rag_service.chat
ChatBranch(svc, store, message, chat_history, language, ext) ==
    IF IsNone(svc) THEN [raised |-> TRUE, error |-> NotInitialized, call |-> NoCall]
    ELSE [raised |-> FALSE, error |-> <<>>,
          call |-> chat(svc, store, message, chat_history, language, ext)]

\* the greeting branch: the guard, then rag_service.generate_initial_greeting
GreetingBranch(svc, store, assessment_summary, language, ext) ==
    IF IsNone(svc) THEN [raised |-> TRUE, error |-> NotInitialized, call |-> NoCall]
    ELSE [raised |-> FALSE, error |-> <<>>,
          call |-> generate_initial_greeting(svc, store, assessment_summary,
                                             language, ext)]

\* line.strip() of a whitespace-only line, and of any other line
BlankText == ""
CommandText == "{...}"

\* the loop takes another line while the stream has one
CanRead == pc = "read" /\ Len(stdin_read) < MaxLines

\* a loop without the blank-line test: json.loads("") raises
BlankLine_Parsed ==
    /\ CanRead
    /\ stdin_read' = Append(stdin_read, BlankText)
    /\ stdout' = PrintLine(stdout, Len(stdin_read) + 1,
                           ErrorResponse(<<"Expecting value: line 1 column 1 (char 0)">>))
    /\ last' = Locals("", <<>>, TRUE, FALSE, FALSE, NoCall,
                      ErrorResponse(<<"Expecting value: line 1 column 1 (char 0)">>))
    /\ UNCHANGED <<rag_service, storage, pc>>
    /\ UNCHANGED callvars

\* line = line.strip(); if not line: continue
BlankLine ==
    /\ CanRead
    /\ stdin_read' = Append(stdin_read, BlankText)
    /\ UNCHANGED <<rag_service, storage, stdout, pc, last>>
    /\ UNCHANGED callvars

\* json.loads(line) raises JSONDecodeError
MalformedLine ==
    /\ CanRead
    /\ stdin_read' = Append(stdin_read, CommandText)
    /\ stdout' = PrintLine(stdout, Len(stdin_read) + 1,
                           ErrorResponse(<<"Expecting value: line 1 column 1 (char 0)">>))
    /\ last' = Locals("", <<>>, TRUE, FALSE, FALSE, NoCall,
                      ErrorResponse(<<"Expecting value: line 1 column 1 (char 0)">>))
    /\ UNCHANGED <<rag_service, storage, pc>>
    /\ UNCHANGED callvars

\* the line is JSON but no object: input_data.get raises AttributeError
NonObjectLine ==
    /\ CanRead
    /\ stdin_read' = Append(stdin_read, CommandText)
    /\ stdout' = PrintLine(stdout, Len(stdin_read) + 1,
                           ErrorResponse(<<"'list' object has no attribute 'get'">>))
    /\ last' = Locals("", <<>>, TRUE, FALSE, FALSE, NoCall,
                      ErrorResponse(<<"'list' object has no attribute 'get'">>))
    /\ UNCHANGED <<rag_service, storage, pc>>
    /\ UNCHANGED callvars

\* command == "initialize"
Initialize(careers_json, chroma_dir, provider_field, ext) ==
    LET provider == Get(provider_field, "google")
        made == RAGChatService(careers_json, chroma_dir, provider, storage, ext)
        response == IF made.res.raised THEN ErrorResponse(made.res.error)
                    ELSE InitializedResponse
    IN  /\ CanRead
        /\ stdin_read' = Append(stdin_read, CommandText)
        /\ rag_service' = AssignService(rag_service, made)
        /\ storage' = made.store
        /\ stdout' = PrintLine(stdout, Len(stdin_read) + 1, response)
        /\ last' = Locals("initialize", <<careers_json, chroma_dir, provider>>,
                          made.res.raised, made.corpus_read, made.loaded,
                          NoCall, response)
        /\ UNCHANGED pc
        /\ UNCHANGED callvars

\* a chat branch that discards the instance when the turn reports an error
Chat_DropsService(message_field, chat_history, language_field, ext) ==
    LET message == GetValue(message_field, PyNone)
        language == Get(language_field, "en")
        done == ChatBranch(rag_service, storage, message, chat_history,
                           language, ext)
        response == IF done.raised THEN ErrorResponse(done.error)
                    ELSE DataResponse
    IN  /\ CanRead
        /\ stdin_read' = Append(stdin_read, CommandText)
        /\ stdout' = PrintLine(stdout, Len(stdin_read) + 1, response)
        /\ last' = Locals("chat", <<message, chat_history, language>>,
                          done.raised, FALSE, FALSE, done.call, response)
        /\ rag_service' = IF done.call.result.error # <<>> THEN NoService
                          ELSE rag_service
        /\ UNCHANGED <<storage, pc>>
        /\ UNCHANGED callvars

\* command == "chat"
Chat(message_field, chat_history, language_field, ext) ==
    LET message == GetValue(message_field, PyNone)
        language == Get(language_field, "en")
        done == ChatBranch(rag_service, storage, message, chat_history,
                           language, ext)
        response == IF done.raised THEN ErrorResponse(done.error)
                    ELSE DataResponse
    IN  /\ CanRead
        /\ stdin_read' = Append(stdin_read, CommandText)
        /\ stdout' = PrintLine(stdout, Len(stdin_read) + 1, response)
        /\ last' = Locals("chat", <<message, chat_history, language>>,
                          done.raised, FALSE, FALSE, done.call, response)
        /\ UNCHANGED <<rag_service, storage, pc>>
        /\ UNCHANGED callvars

\* command == "greeting"
Greeting(assessment_summary, language_field, ext) ==
    LET language == Get(language_field, "en")
        done == GreetingBranch(rag_service, storage, assessment_summary,
                               language, ext)
        response == IF done.raised THEN ErrorResponse(done.error)
                    ELSE DataResponse
    IN  /\ CanRead
        /\ stdin_read' = Append(stdin_read, CommandText)
        /\ stdout' = PrintLine(stdout, Len(stdin_read) + 1, response)
        /\ last' = Locals("greeting", <<assessment_summary, language>>,
                          done.raised, FALSE, FALSE, done.call, response)
        /\ UNCHANGED <<rag_service, storage, pc>>
        /\ UNCHANGED callvars

\* an else branch whose message leaves the identifier out
UnknownCommand_Unnamed(command) ==
    /\ CanRead
    /\ stdin_read' = Append(stdin_read, CommandText)
    /\ stdout' = PrintLine(stdout, Len(stdin_read) + 1,
                           ErrorResponse(<<"Unknown command">>))
    /\ last' = Locals(command, <<>>, FALSE, FALSE, FALSE, NoCall,
                      ErrorResponse(<<"Unknown command">>))
    /\ UNCHANGED <<rag_service, storage, pc>>
    /\ UNCHANGED callvars

\* the else branch: any other command identifier
UnknownCommand(command) ==
    /\ CanRead
    /\ stdin_read' = Append(stdin_read, CommandText)
    /\ stdout' = PrintLine(stdout, Len(stdin_read) + 1,
                           ErrorResponse(<<"Unknown command: ", command>>))
    /\ last' = Locals(command, <<>>, FALSE, FALSE, FALSE, NoCall,
                      ErrorResponse(<<"Unknown command: ", command>>))
    /\ UNCHANGED <<rag_service, storage, pc>>
    /\ UNCHANGED callvars

\* sys.stdin is exhausted: the for loop ends and main returns
EndOfInput ==
    /\ pc = "read"
    /\ pc' = "eof"
    /\ UNCHANGED <<rag_service, storage, stdin_read, stdout, last>>
    /\ UNCHANGED callvars

Init ==
    /\ rag_service = NoService
    /\ storage \in { [d \in Dirs |-> IF d = "chroma_a" THEN a ELSE AbsentDir] :
                        a \in {AbsentDir, EmptyDir, IndexDir(PrebuiltDocs)} }
    /\ stdin_read = <<>>
    /\ stdout = <<>>
    /\ pc = "read"
    /\ last = NoLocals
    /\ sent_history = <<>>
    /\ lc_result = Ok(<<>>)
    /\ retrieved = <<>>
    /\ shown = [sources |-> <<>>, context |-> format_docs(<<>>)]

Next ==
    \/ BlankLine
    \/ MalformedLine
    \/ NonObjectLine
    \/ \E c \in CorpusPaths, d \in Dirs \cup {None},
          p \in Providers, ext \in InitExt : Initialize(c, d, p, ext)
    \/ \E m \in Messages, h \in Histories, l \in Languages, ext \in ChatExt :
          Chat(m, h, l, ext)
    \/ \E a \in Summaries, l \in GreetingLanguages, ext \in ChatExt :
          Greeting(a, l, ext)
    \/ \E c \in UnknownCommands : UnknownCommand(c)
    \/ EndOfInput

Spec == Init /\ [][Next]_vars

\* the initial state with no storage directory on disk
CallInit == Init /\ storage = [d \in Dirs |-> AbsentDir]

---------------------------------------------------------------------------
(* main with greeting commands in every language *)

\* the "language" field of a greeting command: the codes of the table, two
\* codes outside it, a JSON array, and no field at all
LanguageCodes ==
    {"en", "hi", "te", "ta", "mr", "bn", "gu", "xx", ListValue, Missing}

\* the "assessment_summary" field
GreetingSummaries == Summaries \cup {"Social, Artistic"}

\* an initialize that builds from A.json, and a chat turn in which no
\* external call raises
BuildExt == [client_ok |-> TRUE]
AllOk == [retr_ok |-> TRUE, ctx_ok |-> TRUE, llm_ok |-> TRUE, rank |-> 0]

GreetingNext ==
    \/ Initialize("A.json", "chroma_a", Missing, BuildExt)
    \/ \E a \in GreetingSummaries, l \in LanguageCodes : Greeting(a, l, AllOk)
    \/ EndOfInput

GreetingSpec == CallInit /\ [][GreetingNext]_vars

---------------------------------------------------------------------------
(* chat taken alone: the history loop on the histories a caller may send *)

\* role values of the elements of a chat_history
HistoryRoles == {"user", "assistant", "system"}

\* the n-th element of a conversation: its content tells its position
Turn(role, n) == [dict |-> TRUE, role |-> role, content |-> PyStr(<<n>>)]

\* the caller's conversation has grown by one element and chat is called
\* with it: lines 226-236 run on the new chat_history
SendHistory(role) ==
    /\ Len(sent_history) < MaxHistory
    /\ sent_history' = Append(sent_history, Turn(role, Len(sent_history) + 1))
    /\ lc_result' = NormalizeHistory(sent_history')
    /\ UNCHANGED <<retrieved, shown>>
    /\ UNCHANGED mainvars

HistoryNext == \E role \in HistoryRoles : SendHistory(role)

HistorySpec == CallInit /\ [][HistoryNext]_vars

---------------------------------------------------------------------------
(* chat taken alone: the sources loop and format_docs on the lists of
   documents a retrieval query may return *)

\* a chunk whose metadata has no title, as an index persisted by another
\* program may hold
UntitledDoc ==
    [page_content |-> Text("u0", 250), source_id |-> 9, title |-> Missing,
     chunk_index |-> 0]

\* the documents a query may return: the chunks of the corpus files and the
\* untitled one
DocPool ==
    LET docs == PrebuiltDocs \o _json_to_docs(CorpusFile("B.json").value).value
    IN  { docs[n] : n \in 1..Len(docs) } \cup {UntitledDoc}

\* a retrieval query returns the list returned before with one more document
\* at its end (the retriever's k is a setting of the constructor; the loops
\* are given lists up to MaxDocs), and the sources loop (252-259) and
\* format_docs (177-184) run on it
ReturnDocs(doc) ==
    /\ Len(retrieved) < MaxDocs
    /\ retrieved' = Append(retrieved, doc)
    /\ shown' = [sources |-> FormatSources(retrieved'),
                 context |-> format_docs(retrieved')]
    /\ UNCHANGED <<sent_history, lc_result>>
    /\ UNCHANGED mainvars

DocsNext == \E doc \in DocPool : ReturnDocs(doc)

DocsSpec == CallInit /\ [][DocsNext]_vars

---------------------------------------------------------------------------
(* Properties of the dispatcher and the service *)

\* the step consumed an input line that is not blank
CommandStep ==
    /\ Len(stdin_read') = Len(stdin_read) + 1
    /\ stdin_read'[Len(stdin_read')] = CommandText

\* the step consumed a blank input line
BlankStep ==
    /\ Len(stdin_read') = Len(stdin_read) + 1
    /\ stdin_read'[Len(stdin_read')] = BlankText

\* C1: while the service is uninitialized, a chat or greeting command is
\* answered with status "error" and the not-initialized message, and the chat
\* operation is not entered: no history normalization, retrieval or
\* generation step runs for it.
C1_UninitializedRejects ==
    [][ (CommandStep /\ IsNone(rag_service)
            /\ last'.command \in {"chat", "greeting"})
        => /\ last'.response = ErrorResponse(NotInitialized)
           /\ stdout'[Len(stdout')].status = "error"
           /\ last'.call.steps = <<>>
           /\ last'.call = NoCall ]_vars

C1_Witness ==
    /\ IsNone(rag_service)
    /\ last.command = "greeting"
    /\ last.response = ErrorResponse(NotInitialized)
    /\ Len(stdout) = 2

\* C2: a command whose processing raises into main's except branch (malformed
\* JSON, a JSON value that is no object, a failing initialize, a command
\* before initialize) is answered with one status "error" line, leaves the
\* service instance as it was, and leaves the loop reading; the loop ends
\* only on end-of-input, in a step that consumes no line.
C2_FaultIsolated ==
    [][ /\ (CommandStep /\ last'.raised)
            => /\ last'.response.status = "error"
               /\ stdout' = Append(stdout, [line |-> Len(stdin_read'),
                                            status |-> "error"])
               /\ rag_service' = rag_service
               /\ pc' = "read"
        /\ (pc' # pc)
            => /\ pc = "read" /\ pc' = "eof"
               /\ UNCHANGED <<rag_service, storage, stdin_read, stdout, last>>
      ]_vars

C2_Witness ==
    /\ last.command = "initialize"
    /\ last.raised
    /\ ~IsNone(rag_service)
    /\ pc = "read"

\* the numbers of the non-blank lines among the first n input lines, oldest
\* first
RECURSIVE NonBlankLines(_, _)
NonBlankLines(lines, n) ==
    IF n = 0 THEN <<>>
    ELSE IF lines[n] = BlankText THEN NonBlankLines(lines, n - 1)
    ELSE Append(NonBlankLines(lines, n - 1), n)

\* C3: the responses printed are, in order, one for each non-blank input line
\* and none for a blank one; a blank line changes nothing.
C3_OneResponsePerLine ==
    /\ [](LET answered == NonBlankLines(stdin_read, Len(stdin_read))
          IN  /\ Len(stdout) = Len(answered)
              /\ \A n \in 1..Len(stdout) : stdout[n].line = answered[n])
    /\ [][ BlankStep => UNCHANGED <<rag_service, storage, stdout, pc, last>> ]_vars

C3_Witness ==
    /\ stdin_read = <<CommandText, BlankText, CommandText>>
    /\ Len(stdout) = 2
    /\ stdout[2].line = 3

\* C4: the service leaves Uninitialized only in an initialize step answered
\* with the success message, and never returns to it: once it is
\* initialized, no later command is answered with the not-initialized error,
\* failing initialize commands in between included.
C4_OneWayInitialized ==
    [][ /\ (IsNone(rag_service) /\ ~IsNone(rag_service'))
            => /\ CommandStep
               /\ last'.command = "initialize"
               /\ last'.response = InitializedResponse
               /\ stdout'[Len(stdout')].status = "success"
        /\ ~IsNone(rag_service)
            => /\ ~IsNone(rag_service')
               /\ CommandStep => last'.response.message # NotInitialized
      ]_vars

C4_Witness ==
    /\ Len(stdout) = 3
    /\ stdout[1].status = "success"
    /\ stdout[2].status = "error"
    /\ last.command = "chat"
    /\ last.response = DataResponse
    /\ ~IsNone(rag_service)

\* the fields an initialize command may carry
InitDirs == Dirs \cup {None}

\* the error an unrecognized provider raises
UnknownProvider(provider) == ErrorResponse(<<"Unknown provider: ", provider>>)

\* the index the current instance queries is left as it was
IndexKept ==
    ~IsNone(rag_service)
        => storage'[rag_service.vectordb] = storage[rag_service.vectordb]

\* the step is main's initialize branch
InitializeStep == CommandStep /\ last'.command = "initialize"

\* the step is main's chat branch
ChatStep == CommandStep /\ last'.command = "chat"

\* C5 as stated: an initialize command with an unrecognized provider (and a
\* storage directory named) is answered with status "error" and a message
\* naming the provider, and the service instance and the index it queries
\* are left as they were.
C5_UnknownProviderNamed ==
    [][ (InitializeStep /\ last'.args[2] \in Dirs /\ last'.args[3] = "bogus")
        => \A ext \in InitExt :
            Initialize(last'.args[1], last'.args[2], "bogus", ext)
            => /\ last'.response = UnknownProvider("bogus")
               /\ rag_service' = rag_service
               /\ IndexKept ]_vars

\* C5 amended: such a command is answered with status "error" and leaves the
\* service instance and the index it queries as they were; the message names
\* the provider when the build or load of the index succeeded, and is the
\* error of that earlier step otherwise.
C5_UnknownProviderRejected ==
    [][ (InitializeStep /\ last'.args[3] = "bogus")
        => LET c == last'.args[1]
               d == last'.args[2]
           IN  \A ext \in InitExt :
                 Initialize(c, d, "bogus", ext)
                 => /\ last'.response.status = "error"
                    /\ stdout'[Len(stdout')].status = "error"
                    /\ rag_service' = rag_service
                    /\ IndexKept
                    /\ (d \in Dirs /\ (storage[d].state = "nonempty"
                                         \/ c \in {"A.json", "B.json"}))
                         => last'.response = UnknownProvider("bogus") ]_vars

C5_Witness ==
    /\ last.command = "initialize"
    /\ last.response = UnknownProvider("bogus")
    /\ ~IsNone(rag_service)
    /\ rag_service.provider = "google"

\* corpus files that cannot be opened or lack a field
BadCorpusPaths == {"missing.json", "malformed.json"}

\* C6 as stated: an initialize command whose corpus file is unreadable or
\* malformed is answered with status "error" and leaves the service instance
\* as it was, whatever the state of the index storage directory.
C6_BadCorpusAlwaysRejected ==
    [][ (InitializeStep /\ last'.args[1] \in BadCorpusPaths)
        => \A p \in Providers, ext \in InitExt :
            Initialize(last'.args[1], last'.args[2], p, ext)
            => /\ last'.response.status = "error"
               /\ rag_service' = rag_service ]_vars

\* C6 amended: such a command is answered with status "error" and leaves the
\* service instance as it was when the index storage directory is absent or
\* empty; when the directory holds an index the corpus file is not read.
C6_BadCorpusRejectedOnBuild ==
    [][ (InitializeStep /\ last'.args[1] \in BadCorpusPaths)
        => LET d == last'.args[2]
           IN  \A p \in Providers, ext \in InitExt :
                 Initialize(last'.args[1], d, p, ext)
                 => /\ (d \in Dirs => storage[d].state # "nonempty")
                         => /\ last'.response.status = "error"
                            /\ stdout'[Len(stdout')].status = "error"
                            /\ rag_service' = rag_service
                            /\ storage' = storage
                    /\ (d \in Dirs /\ storage[d].state = "nonempty")
                         => ~last'.corpus_read ]_vars

C6_Witness ==
    /\ last.command = "initialize"
    /\ last.corpus_read
    /\ last.response = ErrorResponse(<<"'title'">>)
    /\ storage["chroma_a"] = EmptyDir

\* the ids of the records of a corpus file
CorpusIds(path) ==
    LET items == CorpusFile(path).value
    IN  { items[n].id : n \in 1..Len(items) }

\* every chunk a query of the instance can return, under any ranking
RetrievableDocs(svc, store) ==
    UNION { LET docs == RetrieverInvoke(svc, store, TRUE, rank).value
            IN  { docs[n] : n \in 1..Len(docs) } : rank \in Ranks }

\* C7: when an instance built on corpus A is replaced by a successful
\* initialize naming corpus B, the new instance retrieves only chunks cut
\* from the records of B, whatever storage directory the command names.
C7_NoStaleIndex ==
    [][ (InitializeStep /\ last'.args[1] = "B.json")
        => \A p \in Providers, ext \in InitExt :
            (/\ ~IsNone(rag_service)
             /\ rag_service.careers_json_path = "A.json"
             /\ Initialize("B.json", last'.args[2], p, ext)
             /\ ~last'.raised)
            => /\ rag_service'.careers_json_path = "B.json"
               /\ \A doc \in RetrievableDocs(rag_service', storage') :
                      doc.source_id \in CorpusIds("B.json") ]_vars

\* C8: an initialize naming a storage directory loads the index, reading no
\* corpus and writing nothing, exactly when the directory is non-empty;
\* otherwise it reads the corpus and, when that succeeds, persists the
\* chunks of that corpus in the directory.  A directory that holds an
\* index is never written again, so an initialize naming it loads.
C8_LoadIffNonEmpty ==
    [][ /\ (InitializeStep /\ last'.args[2] \in Dirs)
            => LET c == last'.args[1]
                   d == last'.args[2]
               IN  \A p \in Providers, ext \in InitExt :
                     Initialize(c, d, p, ext)
                     => /\ storage[d].state = "nonempty"
                             => /\ last'.loaded /\ ~last'.corpus_read
                                /\ storage' = storage
                        /\ storage[d].state # "nonempty"
                             => /\ ~last'.loaded /\ last'.corpus_read
                                /\ c \in BadCorpusPaths => storage' = storage
                                /\ c \notin BadCorpusPaths
                                     => storage' = [storage EXCEPT ![d] =
                                           IndexDir(_json_to_docs(CorpusFile(c).value).value)]
        /\ \A d \in Dirs :
              storage[d].state = "nonempty" => storage'[d] = storage[d] ]_vars

C8_Witness ==
    /\ last.command = "initialize"
    /\ last.loaded
    /\ ~last.raised
    /\ rag_service.chroma_persist_dir = "chroma_b"
    /\ Len(stdout) >= 2

\* C9: the dict a chat command returns has a response and no error, or an
\* error and no response.
C9_ResponseXorError ==
    (last.command = "chat" /\ last.response.has_data)
        => \/ last.call.result.response # <<>> /\ last.call.result.error = <<>>
           \/ last.call.result.response = <<>> /\ last.call.result.error # <<>>

C9_Witness ==
    /\ last.command = "chat"
    /\ last.response.has_data
    /\ last.call.result.response = <<>>
    /\ last.call.steps = <<"history", "retrieve">>

\* the history loop raises on this chat_history
HistoryRaises(chat_history) == NormalizeHistory(chat_history).raised

\* C10: in an initialized service, a chat command in which history
\* normalization, a retrieval query or the generation call raises is answered
\* with status "success" and a data object whose response is null and whose
\* error is set; nothing is raised into main's except branch.
C10_ChatFailureCaught ==
    [][ (ChatStep /\ ~IsNone(rag_service))
        => \A ext \in ChatExt :
            (/\ \/ HistoryRaises(last'.args[2])
                \/ ~ext.retr_ok \/ ~ext.ctx_ok \/ ~ext.llm_ok
             /\ Chat(last'.args[1], last'.args[2], last'.args[3], ext))
            => /\ ~last'.raised
               /\ last'.response = DataResponse
               /\ stdout'[Len(stdout')].status = "success"
               /\ last'.call.result.response = <<>>
               /\ last'.call.result.error # <<>>
               /\ rag_service' = rag_service ]_vars

C10_Witness ==
    /\ last.command = "chat"
    /\ last.response = DataResponse
    /\ last.call.steps = <<"history">>
    /\ last.call.result.error = << <<"'role'">> >>

\* the step is main's greeting branch
GreetingStep == CommandStep /\ last'.command = "greeting"

\* an external call of the chat operation raises
CallFails(ext) == ~ext.retr_ok \/ ~ext.ctx_ok \/ ~ext.llm_ok

\* C11: in an initialized service, a greeting command during which a
\* retrieval query or the generation call raises returns a result whose
\* response is the fixed fallback greeting and whose error is set.
C11_GreetingFallback ==
    [][ (GreetingStep /\ ~IsNone(rag_service))
        => \A ext \in ChatExt :
            (CallFails(ext) /\ Greeting(last'.args[1], last'.args[2], ext))
            => /\ last'.call.result.response = <<FallbackGreeting>>
               /\ last'.call.result.error # <<>> ]_vars

\* C12: whether or not the service is initialized, a command object whose
\* identifier is none of initialize, chat and greeting is answered with one
\* status "error" line whose message is "Unknown command: " followed by the
\* identifier, and the service instance and the storage are left as they
\* were.
C12_UnknownCommandNamed ==
    [][ (CommandStep /\ last'.command \in UnknownCommands)
        => /\ last'.response.status = "error"
           /\ last'.response.message = <<"Unknown command: ", last'.command>>
           /\ stdout' = Append(stdout, [line |-> Len(stdin_read'),
                                        status |-> "error"])
           /\ rag_service' = rag_service
           /\ storage' = storage ]_vars

C12_Witness ==
    /\ Len(stdout) = 3
    /\ stdout[1].status = "error"
    /\ stdout[2].status = "success"
    /\ ~IsNone(rag_service)
    /\ last.command = "shutdown"
    /\ last.response = ErrorResponse(<<"Unknown command: ", "shutdown">>)

\* the position in the conversation of the n-th message of an lc_history
Position(lc_history, n) == lc_history[n].content.text[1]

\* C13: whatever its length, a history is normalized to at most 10 messages,
\* each made from an element of the history, and they stand in the order
\* their elements have in the history.
C13_WindowBoundedOrdered ==
    LET lc_history == lc_result.value
    IN  /\ ~lc_result.raised
        /\ Len(lc_history) <= 10
        /\ \A n \in 1..Len(lc_history) :
              /\ Position(lc_history, n) \in 1..Len(sent_history)
              /\ lc_history[n].content
                    = sent_history[Position(lc_history, n)].content
        /\ \A m, n \in 1..Len(lc_history) :
              m < n => Position(lc_history, m) < Position(lc_history, n)

C13_Witness ==
    /\ Len(sent_history) = 11
    /\ Len(lc_result.value) = 10
    /\ Position(lc_result.value, 1) = 2

\* C14: every message of the normalized history is made from an element
\* whose role is "user" (a human message) or "assistant" (an ai message);
\* an element with another role value leaves no message, and the history
\* loop does not raise on it.
C14_OnlyUserAssistant ==
    LET lc_history == lc_result.value
    IN  /\ ~lc_result.raised
        /\ \A n \in 1..Len(lc_history) :
              LET msg == sent_history[Position(lc_history, n)]
              IN  \/ msg.role = "user" /\ lc_history[n].type = "human"
                  \/ msg.role = "assistant" /\ lc_history[n].type = "ai"
        /\ \A k \in 1..Len(sent_history) :
              sent_history[k].role \notin {"user", "assistant"}
                => \A n \in 1..Len(lc_history) : Position(lc_history, n) # k

C14_Witness ==
    /\ Len(sent_history) = 3
    /\ sent_history[2].role = "system"
    /\ ~lc_result.raised
    /\ Len(lc_result.value) = 2
    /\ lc_result.value[2].type = "ai"

\* C15: the sources list has at most 4 entries and no more than the query
\* returned; its n-th entry is made from the n-th document returned (its
\* title, or "Unknown", and its chunk_index), and its snippet is the first
\* 250 characters of that document's text, or all of a shorter text.
C15_SourcesCapped ==
    /\ Len(shown.sources) <= 4
    /\ Len(shown.sources) <= Len(retrieved)
    /\ Len(shown.sources) = Len(retrieved) \/ Len(shown.sources) = 4
    /\ \A n \in 1..Len(shown.sources) :
          LET doc == retrieved[n]
              src == shown.sources[n]
          IN  /\ src.title = (IF doc.title = Missing THEN "Unknown" ELSE doc.title)
              /\ src.chunk_index = doc.chunk_index
              /\ src.snippet.text = doc.page_content.text
              /\ src.snippet.len <= 250
              /\ src.snippet.len = doc.page_content.len
                    \/ (src.snippet.len = 250 /\ doc.page_content.len > 250)

C15_Witness ==
    /\ Len(retrieved) = 5
    /\ retrieved[2] = UntitledDoc
    /\ Len(shown.sources) = 4
    /\ retrieved[1].page_content.len = 512
    /\ shown.sources[1].snippet.len = 250
    /\ shown.sources[2].title = "Unknown"

\* the number of retrieval queries among the steps of a chat call
RetrievalQueries(steps) ==
    Cardinality({ n \in 1..Len(steps) :
                    steps[n] \in {"retrieve", "context_retrieve"} })

\* C16: a chat turn that returns a response has issued exactly one retrieval
\* query, whose result serves both the sources and the generation context.
C16_SingleRetrieval ==
    (last.command = "chat" /\ last.call.result.response # <<>>)
        => RetrievalQueries(last.call.steps) = 1

\* every non-blank line among the lines read has its response on stdout
AllAnswered ==
    \A n \in 1..Len(stdin_read) :
        stdin_read[n] = CommandText
            => \E k \in 1..Len(stdout) : stdout[k].line = n

\* C17: lines are taken one at a time; when a line is taken every line
\* taken before it has its response on stdout, and the step that takes a
\* command puts the response to that command at the end of stdout, so the
\* responses stand in the order of their commands.
C17_StrictlySerial ==
    [][ /\ stdin_read' # stdin_read
            => /\ Len(stdin_read') = Len(stdin_read) + 1
               /\ SubSeq(stdin_read', 1, Len(stdin_read)) = stdin_read
               /\ AllAnswered
        /\ CommandStep
            => /\ stdout' = Append(stdout, [line |-> Len(stdin_read'),
                                            status |-> last'.response.status])
               /\ \A k \in 1..Len(stdout) : stdout[k].line < Len(stdin_read')
        /\ stdout' # stdout => CommandStep ]_vars

C17_Witness ==
    /\ Len(stdout) = 3
    /\ stdout[1].line = 1 /\ stdout[1].status = "error"
    /\ stdout[2].line = 2 /\ stdout[2].status = "success"
    /\ stdout[3].line = 3 /\ stdout[3].status = "success"
    /\ last.command = "greeting"

\* the instruction the table holds for a language code
TableInstruction(language) ==
    [en |-> "Generate in English", hi |-> "Generate in Hindi",
     te |-> "Generate in Telugu", ta |-> "Generate in Tamil",
     mr |-> "Generate in Marathi", bn |-> "Generate in Bengali"][language]

\* C18: the prompt a greeting hands to the chat operation carries, for a
\* language code of the table, the instruction the table holds for that
\* code, and for any other code the English instruction; it carries the
\* assessment summary of the command.
C18_InstructionByLanguage ==
    [][ (GreetingStep /\ ~IsNone(rag_service) /\ last'.args[2] # ListValue)
        => LET language == last'.args[2]
               message == last'.call.prompt[1].question.text
           IN  /\ Len(message) = 5
               /\ message[2] = (IF language \in {"en", "hi", "te", "ta", "mr", "bn"}
                                THEN TableInstruction(language)
                                ELSE "Generate in English")
               /\ language = "hi" => message[2] = "Generate in Hindi"
               /\ message[3] = "Assessment Summary:"
               /\ message[4] = last'.args[1] ]_vars

C18_Witness ==
    /\ Len(stdout) = 3
    /\ last.command = "greeting"
    /\ last.args = <<"Social, Artistic", "gu">>
    /\ ~IsNone(rag_service)
    /\ last.call.prompt[1].question.text[2] = "Generate in English"
    /\ last.call.prompt[1].question.text[4] = "Social, Artistic"

\* the records of the corpus files that can be split
CorpusRecords ==
    LET items == CorpusFile("A.json").value \o CorpusFile("B.json").value
    IN  { items[n] : n \in 1..Len(items) }

\* C19: in an index built by _json_to_docs, the chunks of a record follow
\* one another with chunk_index 0, 1, 2, ... (the first chunk of every
\* record has 0, every next chunk of the same record one more than the
\* chunk before it), every piece of the record has its chunk, and each
\* chunk carries the id and the title of its record and the piece of that
\* number.
C19_ChunkIndexContiguous ==
    \A d \in Dirs :
        LET docs == storage[d].docs
        IN  /\ \A n \in 1..Len(docs) :
                  /\ \E item \in CorpusRecords :
                        /\ docs[n].source_id = item.id
                        /\ docs[n].title = item.title
                        /\ docs[n].chunk_index + 1 \in 1..Len(item.content)
                        /\ docs[n].page_content
                              = item.content[docs[n].chunk_index + 1]
                        /\ docs[n].chunk_index + 1 < Len(item.content)
                              => /\ n < Len(docs)
                                 /\ docs[n + 1].source_id = item.id
                  /\ IF n > 1 /\ docs[n - 1].source_id = docs[n].source_id
                     THEN docs[n].chunk_index = docs[n - 1].chunk_index + 1
                     ELSE docs[n].chunk_index = 0

C19_Witness ==
    /\ last.command = "initialize"
    /\ last.corpus_read
    /\ ~last.raised
    /\ Len(storage["chroma_b"].docs) = 5
    /\ storage["chroma_b"].docs[3].chunk_index = 2
    /\ storage["chroma_b"].docs[4].chunk_index = 0

\* C20: the context made of no document is the marker; the context made of
\* the documents a query returned is, for the n-th of them, the block
\* "[Source n: title]" (title "Unknown" when the metadata has none), a line
\* break and the whole text of the document, with the separator between
\* one block and the next and nothing else.
C20_ContextBlocks ==
    /\ retrieved = <<>> => shown.context = << "No relevant information found." >>
    /\ retrieved # <<>>
        => /\ Len(shown.context) = 7 * Len(retrieved) - 1
           /\ \A n \in 1..Len(retrieved) :
                 LET at == 7 * (n - 1)
                     doc == retrieved[n]
                 IN  /\ shown.context[at + 1] = "[Source "
                     /\ shown.context[at + 2] = n
                     /\ shown.context[at + 3] = ": "
                     /\ shown.context[at + 4]
                           = (IF doc.title = Missing THEN "Unknown" ELSE doc.title)
                     /\ shown.context[at + 5] = "]\n"
                     /\ shown.context[at + 6] = doc.page_content
                     /\ n < Len(retrieved)
                           => shown.context[at + 7] = "\n\n---\n\n"

C20_Witness ==
    /\ Len(retrieved) = 5
    /\ retrieved[2] = UntitledDoc
    /\ shown.context[11] = "Unknown"
    /\ shown.context[30] = 5

\* the positions of the last 10 elements of the history sent
LastTen ==
    { k \in 1..Len(sent_history) : k > Len(sent_history) - 10 }

\* C21: the normalized history is made of exactly the elements with role
\* user or assistant among the last 10 elements of the history, one message
\* each: an element older than the last 10 never gives a message, also when
\* elements of the last 10 are dropped for their role.
C21_TruncateThenFilter ==
    LET lc_history == lc_result.value
        kept == { k \in LastTen : sent_history[k].role \in {"user", "assistant"} }
    IN  /\ ~lc_result.raised
        /\ { Position(lc_history, n) : n \in 1..Len(lc_history) } = kept
        /\ Len(lc_history) = Cardinality(kept)

C21_Witness ==
    /\ Len(sent_history) = 11
    /\ sent_history[1].role = "user"
    /\ \A k \in 2..11 : sent_history[k].role = "system"
    /\ lc_result.value = <<>>

\* C22: a chat turn whose history holds, within its last 10 elements, an
\* element without a role field drops that element: the normalized history
\* is made, retrieval and generation run, and the result reports no error
\* of the history loop.
C22_NoRoleDropped ==
    (/\ last.command = "chat"
     /\ last.response.has_data
     /\ last.args[2] = <<UserTurn, NoRoleTurn>>)
        => /\ Len(last.call.steps) > 1
           /\ last.call.steps[2] = "retrieve"
           /\ last.call.result.error # << <<"'role'">> >>

\* the steps of a chat turn in which nothing raises
AllSteps ==
    <<"history", "retrieve", "context_retrieve", "prompt", "llm", "sources">>

\* C23: the steps a chat turn has run are the first steps of the order
\* history normalization, retrieval for the sources, context retrieval,
\* prompt assembly, model call, source formatting, up to and including the
\* step that raised: a history that cannot be normalized leaves only the
\* history step, a failing retrieval for the sources no generation step, a
\* failing context retrieval no prompt and no model call, a failing model
\* call no source formatting; a turn in which nothing raises runs them all.
C23_StepsInOrder ==
    [][ (ChatStep /\ ~IsNone(rag_service))
        => \A ext \in ChatExt :
            Chat(last'.args[1], last'.args[2], last'.args[3], ext)
            => LET steps == last'.call.steps
               IN  /\ steps = SubSeq(AllSteps, 1, Len(steps))
                   /\ Len(steps) =
                        (IF HistoryRaises(last'.args[2]) THEN 1
                         ELSE IF ~ext.retr_ok THEN 2
                         ELSE IF ~ext.ctx_ok THEN 3
                         ELSE IF ~ext.llm_ok THEN 5
                         ELSE 6)
                   /\ (Len(steps) = 6) = (last'.call.result.error = <<>>) ]_vars

C23_Witness ==
    /\ last.command = "chat"
    /\ last.call.steps = <<"history", "retrieve", "context_retrieve">>
    /\ last.call.docs # <<>>
    /\ last.call.result.error # <<>>

\* C24: the service instance changes only in a step of the initialize
\* branch whose constructor returned; a chat, a greeting, an unrecognized
\* command, a malformed line, a blank line and the end of input leave the
\* instance and the storage as they were, whether they succeed or fail, and
\* so does an initialize that fails.
C24_OnlyInitializeChanges ==
    [][ /\ rag_service' # rag_service
            => /\ InitializeStep
               /\ ~last'.raised
               /\ last'.response = InitializedResponse
        /\ ~InitializeStep
            => /\ rag_service' = rag_service
               /\ IsNone(rag_service') = IsNone(rag_service)
               /\ storage' = storage
        /\ (InitializeStep /\ last'.raised) => rag_service' = rag_service
      ]_vars

C24_Witness ==
    /\ Len(stdout) = 3
    /\ stdout[1].status = "success"
    /\ last.command = "greeting"
    /\ last.call.result.error # <<>>
    /\ ~IsNone(rag_service)
    /\ rag_service.careers_json_path = "B.json"

\* C25: a greeting in an initialized service runs the chat operation once:
\* each step of a chat turn once, on the synthesized prompt as the
\* question, with an empty history, and with the language code of the
\* command as the language of the system directive; for a code outside the
\* table the question carries the English instruction and the directive
\* the code itself.
C25_GreetingIsOneChat ==
    [][ (GreetingStep /\ ~IsNone(rag_service) /\ last'.args[2] # ListValue)
        => LET prompt == last'.call.prompt[1]
               language == last'.args[2]
           IN  /\ last'.call.steps
                    = <<"history", "retrieve", "context_retrieve", "prompt",
                        "llm", "sources">>
               /\ Len(last'.call.prompt) = 1
               /\ prompt.question.kind = "str"
               /\ prompt.question.text[1]
                    = "Based on this student's assessment results, ..."
               /\ prompt.question.text[4] = last'.args[1]
               /\ prompt.chat_history = <<>>
               /\ prompt.language = language
               /\ language \in {"gu", "xx"}
                    => /\ prompt.question.text[2] = "Generate in English"
                       /\ prompt.language # "en" ]_vars

C25_Witness ==
    /\ last.command = "greeting"
    /\ last.args[2] = "xx"
    /\ ~IsNone(rag_service)
    /\ last.call.result.response # <<>>
    /\ last.call.prompt[1].language = "xx"
    /\ last.call.prompt[1].question.text[2] = "Generate in English"
    /\ last.call.prompt[1].chat_history = <<>>

\* C26: an initialize with an unrecognized provider that names a readable
\* corpus and a storage directory that is absent or empty is answered with
\* the unknown-provider error and leaves the instance as it was, but it has
\* read the corpus and persisted its chunks in the directory; an
\* initialize that names a directory holding an index, the one such a
\* rejected command left included, loads it and reads no corpus.
C26_IndexBeforeProvider ==
    [][ (InitializeStep /\ last'.args[2] \in Dirs)
        => LET c == last'.args[1]
               d == last'.args[2]
           IN  /\ (/\ last'.args[3] = "bogus"
                   /\ c \in {"A.json", "B.json"}
                   /\ storage[d].state # "nonempty")
                    => /\ last'.response
                            = ErrorResponse(<<"Unknown provider: ", "bogus">>)
                       /\ rag_service' = rag_service
                       /\ last'.corpus_read
                       /\ storage'[d].state = "nonempty"
                       /\ storage'[d].docs
                            = _json_to_docs(CorpusFile(c).value).value
               /\ storage[d].state = "nonempty"
                    => /\ ~last'.corpus_read
                       /\ storage' = storage
                       /\ ~last'.raised => last'.loaded ]_vars

C26_Witness ==
    /\ Len(stdout) = 2
    /\ stdout[1].status = "error"
    /\ last.command = "initialize"
    /\ last.args[2] = "chroma_b"
    /\ last.args[1] = "missing.json"
    /\ last.loaded
    /\ ~last.raised
    /\ storage["chroma_b"].docs = _json_to_docs(CorpusFile("B.json").value).value

\* C27: a chat or greeting result that reports an error has an empty
\* sources list, also when the retrieval for the sources had returned
\* documents and a later step raised; a result with sources has a response
\* and no error.
C27_FailureHasNoSources ==
    (last.command \in {"chat", "greeting"} /\ last.response.has_data)
        => LET result == last.call.result
           IN  /\ result.error # <<>> => result.sources = <<>>
               /\ result.sources # <<>>
                    => result.response # <<>> /\ result.error = <<>>

C27_Witness ==
    /\ last.command = "chat"
    /\ last.response.has_data
    /\ last.call.steps
          = <<"history", "retrieve", "context_retrieve", "prompt", "llm">>
    /\ Len(last.call.docs) = 3
    /\ last.call.result.error # <<>>
    /\ last.call.result.sources = <<>>

====
